---- MODULE Spec2Model ----
(***************************************************************************)
(* chainclient.py: a client-side object model for HAL+JSON documents.      *)
(* A HALDoc holds parsed links and a cache of embedded relations; its      *)
(* RelResolver fetches related resources on demand; a RelList is a lazily  *)
(* fetched, possibly paginated list; a RelListIter walks a RelList.        *)
(*                                                                         *)
(* The server is a finite world of documents addressed by href.  The       *)
(* transport answers every request with a connection failure, an HTTP      *)
(* error status or the document.  Python objects are modelled by value     *)
(* records; the identity of an object is its origin (href) together with   *)
(* a generation number counting how often that place was filled.           *)
(***************************************************************************)
EXTENDS Integers, Sequences, FiniteSets, TLC

\* ---------------------------------------------------------------- bounds
\* pages in a collection's chain, the collection document being page 1
MaxPages == 3
\* item links over all pages of a chain
MaxItems == 2
\* failed GETs one relation of a resource may see before the transport answers
MaxFails == 1
\* POSTs the server accepts
MaxCreates == 1
\* cursors created
MaxIters == 2

\* ---------------------------------------------------------------- hrefs
\* An href is <<kind, a, b>>; None stands for Python's None.
None == <<"None", 0, 0>>
CollHref == <<"coll", 0, 0>>
RoHref == <<"ro", 0, 0>>
SoloHref == <<"solo", 0, 0>>
SiteHref == <<"site", 0, 0>>
Bad1Href == <<"bad1", 0, 0>>
Bad2Href == <<"bad2", 0, 0>>
ListHref == <<"list", 0, 0>>
MoreHref == <<"more", 0, 0>>
FormHref == <<"form", 0, 0>>
OwnerHref == <<"owner", 0, 0>>
PageHref(k) == <<"page", k, 0>>
ItemHref(k, j) == <<"item", k, j>>
NewHref(n) == <<"new", n, 0>>
EntryHrefs == {CollHref, RoHref, SoloHref, SiteHref, Bad1Href, Bad2Href, ListHref}

\* relation names the caller asks for ("meta" is in no document's _links)
Rels == {"items", "owner", "meta"}

EmptyFn == [x \in {} |-> None]

\* ---------------------------------------------------------------- server documents
\* A link descriptor of the wire format: {"href": h, ...} or an object without href.
Link(h) == [hasHref |-> TRUE, href |-> h]
NoHrefLink == [hasHref |-> FALSE, href |-> None]
\* The value of one key of _links: a single link object or an array of them.
One(d) == [many |-> FALSE, ds |-> <<d>>]
Many(ds) == [many |-> TRUE, ds |-> ds]
\* A document: its _links and the relation names of its _embedded section.
Doc(links, emb) == [links |-> links, embedded |-> emb]

RECURSIVE Sum(_)
Sum(s) == IF s = <<>> THEN 0 ELSE Head(s) + Sum(Tail(s))

\* A world: the document the caller starts from (entry), the items per page of
\* the collection's chain, and whether the chain's last page (bad >= 2) is
\* broken: it has no items relation ("noitems"), an item link without href
\* ("badlink") or a single link object where the item array should be ("single").
Worlds ==
  { w \in [entry : EntryHrefs,
           counts : UNION {[1..n -> 0..MaxItems] : n \in 1..MaxPages},
           bad : 0..MaxPages,
           kind : {"none", "noitems", "badlink", "single"}] :
      /\ Sum(w.counts) <= MaxItems
      /\ w.entry # CollHref => Len(w.counts) = 1 /\ w.bad = 0
      /\ w.entry \notin {CollHref, RoHref} => w.counts = <<0>>
      /\ \/ w.bad = 0 /\ w.kind = "none"
         \/ /\ w.bad = Len(w.counts)
            /\ w.bad >= 2
            /\ w.kind # "none"
            /\ w.counts[w.bad] = 0 }

PageItems(w, k) == [j \in 1..w.counts[k] |-> Link(ItemHref(k, j))]

\* The document the server holds at href h:
\*   coll  a collection: items (page 1), next (if more pages), createForm
\*   page  page k of the chain: items, next (if more pages)
\*   ro    a collection without createForm and without further pages
\*   solo  a document whose items relation is a single link, with createForm
\*   site  owner (a single link); its _embedded section inlines owner and meta
\*   bad1  a single link object without href; bad2 an array holding one
\*   list  owner is an array of links, beside a next link (and no items)
\*   any other href (items, owner, new resources): a document without _links
ServerDoc(w, h) ==
  LET N == Len(w.counts)
      nxt(k) == IF k < N THEN "next" :> One(Link(PageHref(k + 1))) ELSE EmptyFn
      its(k) == IF w.bad = k /\ w.kind = "noitems" THEN EmptyFn
                ELSE IF w.bad = k /\ w.kind = "badlink"
                     THEN "items" :> Many(Append(PageItems(w, k), NoHrefLink))
                ELSE IF w.bad = k /\ w.kind = "single"
                     THEN "items" :> One(Link(ItemHref(k, 1)))
                     ELSE "items" :> Many(PageItems(w, k))
      form == "createForm" :> One(Link(FormHref))
  IN CASE h[1] = "coll" -> Doc(its(1) @@ nxt(1) @@ form, {})
       [] h[1] = "page" -> Doc(its(h[2]) @@ nxt(h[2]), {})
       [] h[1] = "ro" -> Doc("items" :> Many(PageItems(w, 1)), {})
       [] h[1] = "solo" -> Doc(("items" :> One(Link(ItemHref(1, 1)))) @@ form, {})
       [] h[1] = "site" -> Doc("owner" :> One(Link(OwnerHref)), {"owner", "meta"})
       [] h[1] = "bad1" -> Doc("owner" :> One(NoHrefLink), {})
       [] h[1] = "bad2" -> Doc("items" :> Many(<<Link(ItemHref(1, 1)), NoHrefLink>>), {})
       [] h[1] = "list" -> Doc(("owner" :> Many(<<Link(OwnerHref)>>))
                               @@ ("next" :> One(Link(MoreHref))), {})
       [] OTHER -> Doc(EmptyFn, {})

\* ---------------------------------------------------------------- client values
\* One record shape for everything a Python variable of the client can hold:
\* a HALLink ("link"), a HALDoc ("res"), a RelList ("seq"), or nothing.
Val(kind, hasHref, href, gen) ==
  [kind |-> kind, hasHref |-> hasHref, href |-> href, gen |-> gen]
NoVal == Val("none", FALSE, None, 0)
RootVal == Val("root", FALSE, None, 0)
ResVal(h, g) == Val("res", FALSE, h, g)
SeqVal(g) == Val("seq", FALSE, None, g)

\* transport answers
Statuses == {"ok", "conn", "http"}

\* _get_with_error: the exception the answer raises
get_with_error(st) ==
  CASE st = "conn" -> "ConnectionError"
    [] st = "http" -> "ChainException"
    [] OTHER -> "ok"

HALLink_unchecked(d) == [exc |-> "ok", link |-> Val("link", d.hasHref, d.href, 0)]
\* HALLink.__init__: a link without href raises ValueError
HALLink(d) ==
  [exc |-> IF d.hasHref THEN "ok" ELSE "ValueError",
   link |-> Val("link", d.hasHref, d.href, 0)]

\* HALDoc.__init__: parses _links only; embedded starts empty; the document's
\* _embedded section stays a raw field of the dict.
HALDoc(doc) ==
  [exc |-> IF \E r \in DOMAIN doc.links : \E i \in 1..Len(doc.links[r].ds) :
                HALLink(doc.links[r].ds[i]).exc # "ok"
           THEN "ValueError" ELSE "ok",
   links |-> [r \in DOMAIN doc.links |->
                [many |-> doc.links[r].many,
                 vs |-> [i \in 1..Len(doc.links[r].ds) |-> HALLink(doc.links[r].ds[i]).link]]],
   raw_embedded |-> doc.embedded]

\* get(href): GET, then HALDoc of the body
get(w, h, st) ==
  IF st # "ok"
  THEN [exc |-> get_with_error(st), links |-> EmptyFn, raw_embedded |-> {}]
  ELSE HALDoc(ServerDoc(w, h))

\* ---------------------------------------------------------------- client state
VARIABLES
  world,     \* the server's documents (fixed after Init)
  root,      \* the HALDoc the caller got with get(): [made, href, raw_embedded]
  links,     \* root.links: relation -> [many, link]
  lists,     \* the Python list objects root.links[rel] of the list-valued relations
  embedded,  \* root.embedded: relation -> the cached HALDoc or RelList
  seqs,      \* the RelList objects: relation -> [rels, next_link, gen]
  iters,     \* the RelListIter objects: [link_list, idx, out]
  last,      \* the last call: what was called, how it ended, what it sent
  rgets,     \* GETs sent by rels[key] on root, per key
  ncreate,   \* POSTs the server accepted
  pages,     \* documents of the items chain fetched so far, in order
  nfetch     \* per item href, the GETs RelList.__getitem__ sent and got answered

vars == <<world, root, links, lists, embedded, seqs, iters, last, rgets, ncreate, pages,
          nfetch>>

Call(op, tgt, key, idx, exc, gets, post, ret) ==
  [op |-> op, tgt |-> tgt, key |-> key, idx |-> idx, exc |-> exc,
   gets |-> gets, post |-> post, ret |-> ret]

\* an attribute access v.href
href_of(v) ==
  [exc |-> IF v.kind = "link" /\ v.hasHref THEN "ok" ELSE "AttributeError",
   href |-> v.href]

\* ---------------------------------------------------------------- RelResolver
contains_embedded_only(lk, emb, key) == key \in DOMAIN emb
\* RelResolver.__contains__
RelResolver_contains(lk, emb, key) == key \in DOMAIN emb \/ key \in DOMAIN lk

embedded_miss(emb, key) == FALSE
\* the try: return self._resource.embedded[key]
embedded_hit(emb, key) == key \in DOMAIN emb

links_getitem_none(lk, key) == IF key \in DOMAIN lk THEN "ok" ELSE "AttributeError"
\* rel = self._resource.links[key]
links_getitem(lk, key) == IF key \in DOMAIN lk THEN "ok" ELSE "KeyError"

\* HALDoc.embed_resource
embed_resource(emb, rel, v) == (rel :> v) @@ emb

resolver_next_link_any(lk, key) ==
  IF "next" \in DOMAIN lk
  THEN IF lk["next"].many
       THEN [exc |-> "AttributeError", href |-> None]
       ELSE href_of(lk["next"].link)
  ELSE [exc |-> "ok", href |-> None]
\* the next link a new RelList for key starts with
resolver_next_link(lk, key) ==
  IF key = "items" /\ "next" \in DOMAIN lk
  THEN IF lk["next"].many
       THEN [exc |-> "AttributeError", href |-> None]
       ELSE href_of(lk["next"].link)
  ELSE [exc |-> "ok", href |-> None]

\* RelList.__init__: rels is the list object handed in, not a copy
RelList(rels, next_link_href, g) ==
  [rels |-> rels, next_link |-> next_link_href, gen |-> g]

Resolved(exc, emb, sq, gets, ret) ==
  [exc |-> exc, embedded |-> emb, seqs |-> sq, gets |-> gets, ret |-> ret]

\* the list branch: links = RelList(links[key], next_link); embed; return
resolve_list(emb, sq, key, nl, g) ==
  IF nl.exc # "ok" THEN Resolved(nl.exc, emb, sq, <<>>, NoVal)
  ELSE Resolved("ok", embed_resource(emb, key, SeqVal(g)),
                (key :> RelList(key, nl.href, g)) @@ sq, <<>>, SeqVal(g))

\* the single branch: resource = get(rel.href); embed; return.  hr is rel.href,
\* d the answer of get
resolve_single(emb, sq, key, hr, d, g) ==
  IF hr.exc # "ok" THEN Resolved(hr.exc, emb, sq, <<>>, NoVal)
  ELSE IF d.exc # "ok" THEN Resolved(d.exc, emb, sq, <<hr.href>>, NoVal)
  ELSE Resolved("ok", embed_resource(emb, key, ResVal(hr.href, g)), sq,
                <<hr.href>>, ResVal(hr.href, g))

\* RelResolver.__getitem__ on a resource with links lk, cache emb, RelLists sq
RelResolver_getitem(w, lk, emb, sq, key, st) ==
  IF embedded_hit(emb, key) THEN Resolved("ok", emb, sq, <<>>, emb[key])
  ELSE IF links_getitem(lk, key) # "ok"
  THEN Resolved(links_getitem(lk, key), emb, sq, <<>>, NoVal)
  ELSE IF lk[key].many
  THEN resolve_list(emb, sq, key, resolver_next_link(lk, key),
                    IF key \in DOMAIN sq THEN sq[key].gen + 1 ELSE 1)
  ELSE resolve_single(emb, sq, key, href_of(lk[key].link),
                      get(w, lk[key].link.href, st),
                      IF key \in DOMAIN emb THEN emb[key].gen + 1 ELSE 1)

\* ---------------------------------------------------------------- RelList
\* RelList.__len__
RelList_len(ls, s) == Len(ls[s.rels])

\* RelList.has_next_page
has_next_page(s) == s.next_link # None

setitem_skip(rels, idx, v) == rels
setitem_append(rels, idx, v) == Append(rels, v)
\* self._rels[idx] = resource
setitem(rels, idx, v) == [rels EXCEPT ![idx + 1] = v]

append_front(rels, item) == <<item>> \o rels
\* RelList.append
RelList_append(rels, item) == Append(rels, item)

Got(exc, ls, gets, ret) == [exc |-> exc, lists |-> ls, gets |-> gets, ret |-> ret]

getitem_refetch(ls, s, idx, item, d) ==
  IF d.exc # "ok" THEN Got(d.exc, ls, <<item.href>>, NoVal)
  ELSE Got("ok", [ls EXCEPT ![s.rels] = setitem(@, idx, ResVal(item.href, item.gen + 1))],
           <<item.href>>, ResVal(item.href, item.gen + 1))
\* RelList.__getitem__ once item = self._rels[idx] is read; d answers get(item.href)
getitem_item(ls, s, idx, item, d) ==
  IF item.kind = "res" THEN Got("ok", ls, <<>>, item)
  ELSE IF href_of(item).exc # "ok" THEN Got(href_of(item).exc, ls, <<>>, NoVal)
  ELSE IF d.exc # "ok" THEN Got(d.exc, ls, <<item.href>>, NoVal)
  ELSE Got("ok", [ls EXCEPT ![s.rels] = setitem(@, idx, ResVal(item.href, item.gen + 1))],
           <<item.href>>, ResVal(item.href, item.gen + 1))

\* RelList.__getitem__ (idx >= 0)
RelList_getitem(w, ls, s, idx, st) ==
  IF idx >= Len(ls[s.rels]) THEN Got("IndexError", ls, <<>>, NoVal)
  ELSE getitem_item(ls, s, idx, ls[s.rels][idx + 1],
                    get(w, ls[s.rels][idx + 1].href, st))

page_next_link_keep(old, plinks) ==
  IF "next" \in DOMAIN plinks THEN plinks["next"].vs[1].href ELSE old
\* get_next_page: the next link is the fetched page's own next link, or None
page_next_link(old, plinks) ==
  IF "next" \in DOMAIN plinks THEN plinks["next"].vs[1].href ELSE None

extend_replace(rels, x) ==
  IF x.many THEN x.vs ELSE <<Val("str", FALSE, None, 0)>>
\* self._rels.extend(x): a list is appended element by element; a single
\* HALLink is a dict, and extending by a dict appends its keys (strings)
extend(rels, x) ==
  IF x.many THEN rels \o x.vs ELSE Append(rels, Val("str", FALSE, None, 0))

Paged(exc, ls, sq, gets, got) ==
  [exc |-> exc, lists |-> ls, seqs |-> sq, gets |-> gets, got |-> got]

\* get_next_page once next_page = get(self._next_link) is answered by d:
\* the next link is assigned before next_page.links['items'] is read
page_fetched(ls, sq, key, h, d) ==
  IF d.exc # "ok" THEN Paged(d.exc, ls, sq, <<h>>, <<>>)
  ELSE IF "next" \in DOMAIN d.links /\ d.links["next"].many
       THEN Paged("AttributeError", ls, sq, <<h>>, <<h>>)
  ELSE IF "items" \notin DOMAIN d.links
       THEN Paged("KeyError", ls,
                  [sq EXCEPT ![key].next_link = page_next_link(h, d.links)], <<h>>, <<h>>)
  ELSE Paged("ok", [ls EXCEPT ![sq[key].rels] = extend(@, d.links["items"])],
             [sq EXCEPT ![key].next_link = page_next_link(h, d.links)], <<h>>, <<h>>)

get_next_page_wrap(w, ls, sq, key, st) ==
  IF sq[key].next_link = None
  THEN Paged("ok", ls, [sq EXCEPT ![key].next_link = CollHref], <<>>, <<>>)
  ELSE page_fetched(ls, sq, key, sq[key].next_link, get(w, sq[key].next_link, st))
\* RelList.get_next_page on the RelList of relation key; requests refuses the
\* URL None before anything is sent
get_next_page(w, ls, sq, key, st) ==
  IF sq[key].next_link = None THEN Paged("MissingSchema", ls, sq, <<>>, <<>>)
  ELSE page_fetched(ls, sq, key, sq[key].next_link, get(w, sq[key].next_link, st))

\* ---------------------------------------------------------------- HALDoc.create
create_url_default(lk) == [exc |-> "ok", href |-> FormHref]
\* create_url = self.links.createForm.href
create_url(lk) ==
  IF "createForm" \notin DOMAIN lk \/ lk["createForm"].many
  THEN [exc |-> "AttributeError", href |-> None]
  ELSE href_of(lk["createForm"].link)

Created(exc, emb, sq, ls, gets, post, ret) ==
  [exc |-> exc, embedded |-> emb, seqs |-> sq, lists |-> ls, gets |-> gets,
   post |-> post, ret |-> ret]

\* create after the POST is answered: self.rels['items'].append(resource),
\* r being the outcome of self.rels['items']
create_append(ls, pst, resource, r) ==
  IF r.exc # "ok" THEN Created(r.exc, r.embedded, r.seqs, ls, r.gets, pst, NoVal)
  ELSE IF r.ret.kind # "seq"
       THEN Created("AttributeError", r.embedded, r.seqs, ls, r.gets, pst, NoVal)
  ELSE Created("ok", r.embedded, r.seqs,
               [ls EXCEPT ![r.seqs["items"].rels] = RelList_append(@, resource)],
               r.gets, pst, resource)

\* HALDoc.create on a resource with links lk, cache emb; n numbers the new resource
create(w, lk, emb, sq, ls, n, pst, gst) ==
  IF create_url(lk).exc # "ok"
  THEN Created(create_url(lk).exc, emb, sq, ls, <<>>, "none", NoVal)
  ELSE IF pst # "ok" THEN Created(get_with_error(pst), emb, sq, ls, <<>>, pst, NoVal)
  ELSE IF ~RelResolver_contains(lk, emb, "items")
       THEN Created("ok", emb, sq, ls, <<>>, pst, ResVal(NewHref(n), 1))
  ELSE create_append(ls, pst, ResVal(NewHref(n), 1),
                     RelResolver_getitem(w, lk, emb, sq, "items", gst))

\* ---------------------------------------------------------------- the caller's steps
\* The resources the caller holds: the root, and every HALDoc it was handed.
\* The documents behind items, owners and new resources carry no _links.
Leaves ==
  {embedded[k] : k \in {x \in DOMAIN embedded : embedded[x].kind = "res"}}
  \cup UNION {{lists[l][i] : i \in {j \in 1..Len(lists[l]) : lists[l][j].kind = "res"}} :
              l \in DOMAIN lists}
\* A call on one of them goes the same way as on any other: LeafVal stands for them.
LeafVal == ResVal(None, 0)
Targets == {RootVal} \cup (IF Leaves = {} THEN {} ELSE {LeafVal})
LinksOf(t) == IF t = RootVal THEN links ELSE EmptyFn
EmbOf(t) == IF t = RootVal THEN embedded ELSE EmptyFn
SeqsOf(t) == IF t = RootVal THEN seqs ELSE EmptyFn

\* Nothing fetched yet.
Fresh ==
  /\ root = [made |-> FALSE, href |-> None, raw_embedded |-> {}]
  /\ links = EmptyFn
  /\ lists = EmptyFn
  /\ embedded = EmptyFn
  /\ seqs = EmptyFn
  /\ iters = <<>>
  /\ last = Call("init", NoVal, "", 0, "ok", <<>>, "none", NoVal)
  /\ rgets = [r \in Rels |-> 0]
  /\ ncreate = 0
  /\ pages = <<>>
  /\ nfetch = EmptyFn

Init == world \in Worlds /\ Fresh

\* doc = chainclient.get(h), answered by d
GotRoot(h, d) ==
  /\ last' = Call("get", NoVal, "", 0, d.exc, <<h>>, "none",
                  IF d.exc = "ok" THEN RootVal ELSE NoVal)
  /\ IF d.exc = "ok"
     THEN /\ root' = [made |-> TRUE, href |-> h, raw_embedded |-> d.raw_embedded]
          /\ links' = [r \in DOMAIN d.links |->
                         [many |-> d.links[r].many,
                          link |-> IF d.links[r].many THEN NoVal ELSE d.links[r].vs[1]]]
          /\ lists' = [r \in {x \in DOMAIN d.links : d.links[x].many} |-> d.links[r].vs]
          /\ pages' = <<h>>
     ELSE UNCHANGED <<root, links, lists, pages>>
  /\ UNCHANGED <<world, embedded, seqs, iters, rgets, ncreate, nfetch>>

GetRoot(st) ==
  /\ ~root.made
  /\ GotRoot(world.entry, get(world, world.entry, st))

\* t.rels[key] with outcome r
Resolved_(t, key, st, r) ==
  /\ st # "ok" => r.gets # <<>> /\ rgets[key] < MaxFails
  /\ rgets[key] < MaxFails + 2
  /\ last' = Call("resolve", t, key, 0, r.exc, r.gets, "none", r.ret)
  /\ IF t = RootVal
     THEN /\ embedded' = r.embedded
          /\ seqs' = r.seqs
          /\ rgets' = [rgets EXCEPT ![key] = @ + Len(r.gets)]
     ELSE UNCHANGED <<embedded, seqs, rgets>>
  /\ UNCHANGED <<world, root, links, lists, iters, ncreate, pages, nfetch>>

Resolve(t, key, st) ==
  /\ root.made
  /\ Resolved_(t, key, st,
               RelResolver_getitem(world, LinksOf(t), EmbOf(t), SeqsOf(t), key, st))

\* key in t.rels; the answer is the kind of the returned value
Contains(t, key) ==
  /\ root.made
  /\ last' = Call("contains", t, key, 0, "ok", <<>>, "none",
                  Val(IF RelResolver_contains(LinksOf(t), EmbOf(t), key) THEN "True" ELSE "False",
                      FALSE, None, 0))
  /\ UNCHANGED <<world, root, links, lists, embedded, seqs, iters, rgets, ncreate, pages,
                  nfetch>>

\* t.create(payload) with outcome c
Created_(t, pst, gst, c) ==
  /\ pst # "ok" => c.post # "none"
  /\ gst # "ok" => c.gets # <<>>
  /\ last' = Call("create", t, "", 0, c.exc, c.gets, c.post, c.ret)
  /\ ncreate' = IF c.post = "ok" THEN ncreate + 1 ELSE ncreate
  /\ IF t = RootVal
     THEN /\ embedded' = c.embedded
          /\ seqs' = c.seqs
          /\ lists' = c.lists
          /\ rgets' = [rgets EXCEPT !["items"] = @ + Len(c.gets)]
     ELSE UNCHANGED <<embedded, seqs, lists, rgets>>
  /\ UNCHANGED <<world, root, links, iters, pages, nfetch>>

Create(t, pst, gst) ==
  /\ root.made
  /\ ncreate < MaxCreates
  /\ Created_(t, pst, gst,
              create(world, LinksOf(t), EmbOf(t), SeqsOf(t), lists, ncreate + 1, pst, gst))

\* the count of the href in hs (at most one) raised by one
Counted(nf, hs) ==
  IF hs = <<>> THEN nf
  ELSE (hs[1] :> (IF hs[1] \in DOMAIN nf THEN nf[hs[1]] + 1 ELSE 1)) @@ nf

\* root.rels[key][idx] with outcome g
Got_(key, idx, st, g) ==
  /\ st # "ok" => g.gets # <<>>
  /\ last' = Call("at", SeqVal(seqs[key].gen), key, idx, g.exc, g.gets, "none", g.ret)
  /\ lists' = g.lists
  /\ nfetch' = Counted(nfetch, IF g.exc = "ok" THEN g.gets ELSE <<>>)
  /\ UNCHANGED <<world, root, links, embedded, seqs, iters, rgets, ncreate, pages>>

\* root.rels[key][idx], key a relation already resolved to a RelList
At(key, idx, st) ==
  /\ key \in DOMAIN seqs
  /\ idx \in 0..Len(lists[seqs[key].rels])
  /\ Got_(key, idx, st, RelList_getitem(world, lists, seqs[key], idx, st))

\* root.rels[key].get_next_page() with outcome p
Paged_(key, st, p) ==
  /\ st # "ok" => p.gets # <<>>
  /\ last' = Call("advancePage", SeqVal(seqs[key].gen), key, 0, p.exc, p.gets, "none", NoVal)
  /\ lists' = p.lists
  /\ seqs' = p.seqs
  /\ pages' = pages \o p.got
  /\ UNCHANGED <<world, root, links, embedded, iters, rgets, ncreate, nfetch>>

AdvancePage(key, st) ==
  /\ key \in DOMAIN seqs
  /\ Paged_(key, st, get_next_page(world, lists, seqs, key, st))

\* iter(root.rels[key])
IterNew(key) ==
  /\ key \in DOMAIN seqs
  /\ Len(iters) < MaxIters
  /\ iters' = Append(iters, [link_list |-> key, idx |-> 0, out |-> <<>>])
  /\ last' = Call("iter", SeqVal(seqs[key].gen), key, 0, "ok", <<>>, "none", NoVal)
  /\ UNCHANGED <<world, root, links, lists, embedded, seqs, rgets, ncreate, pages, nfetch>>

\* got: the page fetched; item: the item fetched
Stepped(exc, ls, sq, gets, got, item, ret) ==
  [exc |-> exc, lists |-> ls, seqs |-> sq, gets |-> gets, got |-> got, item |-> item,
   ret |-> ret]

\* item = self._link_list[self._idx] after the page step p, with outcome g
next_item(p, g) ==
  Stepped(g.exc, g.lists, p.seqs, p.gets \o g.gets, p.got,
          IF g.exc = "ok" THEN g.gets ELSE <<>>, g.ret)

\* RelListIter.next after the page step p
next_paged(w, it, st2, p) ==
  IF p.exc # "ok" THEN Stepped(p.exc, p.lists, p.seqs, p.gets, p.got, <<>>, NoVal)
  ELSE next_item(p, RelList_getitem(w, p.lists, p.seqs[it.link_list], it.idx, st2))

\* RelListIter.next; st1 answers the page request, st2 the item request
RelListIter_next(w, ls, sq, it, st1, st2) ==
  IF it.idx = RelList_len(ls, sq[it.link_list])
  THEN IF has_next_page(sq[it.link_list])
       THEN next_paged(w, it, st2, get_next_page(w, ls, sq, it.link_list, st1))
       ELSE Stepped("StopIteration", ls, sq, <<>>, <<>>, <<>>, NoVal)
  ELSE next_paged(w, it, st2, Paged("ok", ls, sq, <<>>, <<>>))

cursor_after_always(it, n) == [it EXCEPT !.idx = @ + 1]
\* self._idx += 1 is reached only when nothing was raised; out records what
\* the cursor returned
cursor_after(it, n) ==
  IF n.exc = "ok" THEN [it EXCEPT !.idx = @ + 1, !.out = Append(@, n.ret.href)] ELSE it

\* next(iters[c]) with outcome n
Stepped_(c, st1, st2, n) ==
  /\ st1 # "ok" => n.exc = get_with_error(st1) /\ n.got = <<>> /\ st2 = "ok"
  /\ st2 # "ok" => n.exc = get_with_error(st2)
  /\ last' = Call("next", Val("iter", FALSE, None, c), iters[c].link_list, iters[c].idx,
                  n.exc, n.gets, "none", n.ret)
  /\ lists' = n.lists
  /\ seqs' = n.seqs
  /\ pages' = pages \o n.got
  /\ nfetch' = Counted(nfetch, n.item)
  /\ iters' = [iters EXCEPT ![c] = cursor_after(@, n)]
  /\ UNCHANGED <<world, root, links, embedded, rgets, ncreate>>

IterNext(c, st1, st2) ==
  /\ c \in 1..Len(iters)
  /\ Stepped_(c, st1, st2, RelListIter_next(world, lists, seqs, iters[c], st1, st2))

\* The caller resolves relations, creates, indexes and turns pages by hand.
Next ==
  \/ \E st \in Statuses : GetRoot(st)
  \/ \E t \in Targets, key \in Rels, st \in Statuses : Resolve(t, key, st)
  \/ \E t \in Targets, pst \in Statuses, gst \in Statuses : Create(t, pst, gst)
  \/ \E key \in Rels, idx \in 0..(MaxItems + MaxCreates), st \in Statuses : At(key, idx, st)
  \/ \E key \in Rels, st \in Statuses : AdvancePage(key, st)

Spec == Init /\ [][Next]_vars

\* The caller walks a collection's items with cursors.
InitIter == world \in {w \in Worlds : w.entry = CollHref} /\ Fresh

NextIter ==
  \/ \E st \in Statuses : GetRoot(st)
  \/ \E t \in Targets, key \in Rels, st \in Statuses : Resolve(t, key, st)
  \/ \E key \in Rels : IterNew(key)
  \/ \E c \in 1..MaxIters, st1 \in Statuses, st2 \in Statuses : IterNext(c, st1, st2)

SpecIter == InitIter /\ [][NextIter]_vars

\* The caller probes with `in` before and after resolving and creating.
NextProbe ==
  \/ \E st \in Statuses : GetRoot(st)
  \/ \E t \in Targets, key \in Rels, st \in Statuses : Resolve(t, key, st)
  \/ \E t \in Targets, pst \in Statuses, gst \in Statuses : Create(t, pst, gst)
  \/ \E t \in Targets, key \in Rels : Contains(t, key)

SpecProbe == Init /\ [][NextProbe]_vars

\* the only cursor of a run
IterOnly(key) == iters = <<>> /\ IterNew(key)

\* The caller mixes one cursor with indexing, paging by hand and creating, on
\* a collection whose pages are all well-formed.
InitMix == world \in {w \in Worlds : w.entry = CollHref /\ w.bad = 0} /\ Fresh

NextMix ==
  \/ \E st \in Statuses : GetRoot(st)
  \/ \E st \in Statuses : Resolve(RootVal, "items", st)
  \/ \E key \in Rels : IterOnly(key)
  \/ \E c \in 1..MaxIters, st1 \in Statuses, st2 \in Statuses : IterNext(c, st1, st2)
  \/ \E pst \in Statuses, gst \in Statuses : Create(RootVal, pst, gst)
  \/ \E key \in Rels, idx \in 0..(MaxItems + MaxCreates), st \in Statuses : At(key, idx, st)
  \/ \E key \in Rels, st \in Statuses : AdvancePage(key, st)

SpecMix == InitMix /\ [][NextMix]_vars

\* ---------------------------------------------------------------- claims
Failed(exc) == exc \in {"ConnectionError", "ChainException"}

\* C1 (as stated): over any run, the resolves of one relation R on one
\* Resource together send at most one network call.
C1_AtMostOneCallPerRelation ==
  \A r \in Rels : rgets[r] <= 1

\* C1 (amended): once a relation R is cached in embedded it is never replaced
\* or removed; a resolve of R that succeeds leaves R cached with the value it
\* returned; and every later resolve of R (also the one create() makes for
\* items) sends no network call and returns that identical cached value.
\* Only a resolve that failed, and so cached nothing, is followed by another call.
C1_ResolveIdempotent ==
  [][ /\ \A r \in DOMAIN embedded : r \in DOMAIN embedded' /\ embedded'[r] = embedded[r]
      /\ (last'.op = "resolve" /\ last'.tgt = RootVal /\ last'.exc = "ok")
           => last'.key \in DOMAIN embedded' /\ embedded'[last'.key] = last'.ret
      /\ (last'.op = "resolve" /\ last'.tgt = RootVal /\ last'.key \in DOMAIN embedded)
           => last'.exc = "ok" /\ last'.gets = <<>> /\ last'.ret = embedded[last'.key]
      /\ (last'.op = "create" /\ last'.tgt = RootVal /\ "items" \in DOMAIN embedded)
           => last'.gets = <<>> ]_vars

\* C1 witness: a second resolve of a fetched single relation, answered from the cache
C1_Witness ==
  /\ last.op = "resolve" /\ last.tgt = RootVal /\ last.exc = "ok"
  /\ last.ret.kind = "res" /\ last.gets = <<>>
  /\ rgets[last.key] >= 1

\* C2: resolving a relation that the document's _embedded section contains
\* returns the inlined content and sends no network call.
C2_EmbeddedShortCircuit ==
  (last.op = "resolve" /\ last.tgt = RootVal /\ last.key \in root.raw_embedded)
     => last.exc = "ok" /\ last.gets = <<>>

\* every item link of every page of the chain, in page order
RECURSIVE ChainItems(_, _)
ChainItems(w, k) ==
  IF k > Len(w.counts) THEN <<>>
  ELSE [j \in 1..w.counts[k] |-> ItemHref(k, j)] \o ChainItems(w, k + 1)

\* C3: over a well-formed chain of N pages a cursor step whose requests are all
\* answered either yields an item or ends the iteration; when it ends the
\* iteration, exactly N pages were fetched and the cursor has yielded every item
\* of every page in page order.
C3_PaginationTermination ==
  (last.op = "next" /\ world.bad = 0 /\ ~Failed(last.exc))
     => /\ last.exc \in {"ok", "StopIteration"}
        /\ last.exc = "StopIteration"
             => /\ Len(pages) = Len(world.counts)
                /\ iters[last.tgt.gen].out = ChainItems(world, 1)

\* C4: create() on a collection whose items relation is already resolved to a
\* RelList of length K, the POST answered, returns the resource decoded from the
\* answer, appends exactly it as the last element (length K+1) and sends no GET.
C4_CreateAppendsToResolvedItems ==
  [][ (/\ last'.op = "create" /\ last'.tgt = RootVal /\ last'.post = "ok"
       /\ "items" \in DOMAIN embedded /\ embedded["items"].kind = "seq")
        => /\ last'.exc = "ok"
           /\ last'.ret = ResVal(NewHref(ncreate'), 1)
           /\ lists'[seqs["items"].rels] = Append(lists[seqs["items"].rels], last'.ret)
           /\ Len(lists'[seqs["items"].rels]) = Len(lists[seqs["items"].rels]) + 1
           /\ last'.gets = <<>>
           /\ seqs' = seqs /\ embedded' = embedded /\ pages' = pages ]_vars

\* C4 witness: a create that succeeded on a list one of whose items had been
\* fetched by index before (so the RelList existed), the new resource last
C4_Witness ==
  /\ last.op = "create" /\ last.tgt = RootVal /\ last.exc = "ok"
  /\ "items" \in DOMAIN seqs
  /\ LET l == lists[seqs["items"].rels] IN
       /\ Len(l) >= 2
       /\ l[Len(l)] = last.ret
       /\ \E i \in 1..(Len(l) - 1) : l[i].kind = "res" /\ l[i].href[1] = "item"

\* C5: a resolve, at or advancePage that ends in an error leaves the embedded
\* cache, the list's items and the next page link as they were.
C5_NoPartialUpdateOnFailure ==
  [][ (last'.op \in {"resolve", "at", "advancePage"} /\ last'.exc # "ok")
        => embedded' = embedded /\ lists' = lists /\ seqs' = seqs ]_vars

\* C6: at(i) for a known index i fetches no page: the next page link and the
\* length stay as they are, and the only GET it may send is for the link in slot i.
C6_RandomAccessNeverPaginates ==
  [][ (last'.op = "at" /\ last'.idx < Len(lists[seqs[last'.key].rels]))
        => LET l == seqs[last'.key].rels
               item == lists[l][last'.idx + 1]
           IN /\ seqs' = seqs /\ pages' = pages
              /\ Len(lists'[l]) = Len(lists[l])
              /\ Len(last'.gets) <= 1
              /\ last'.gets # <<>> => item.kind = "link" /\ last'.gets = <<item.href>> ]_vars

\* C6 witness: at() of the last known index fetched its item while a next page was pending
C6_Witness ==
  /\ last.op = "at" /\ last.exc = "ok" /\ last.gets # <<>>
  /\ last.idx = Len(lists[seqs[last.key].rels]) - 1
  /\ has_next_page(seqs[last.key])

\* C7: advancePage() with a next page pending and the fetch answered, the page
\* document listing M items: the K known items stay, the page's M links follow
\* in order, and afterwards there is a next page iff the fetched page carries a
\* next link, which is then the next page link.
C7_AdvancePageEffect ==
  [][ (last'.op = "advancePage" /\ last'.exc = "ok")
        => LET s == seqs[last'.key]
               pg == ServerDoc(world, s.next_link)
           IN /\ has_next_page(s)
              /\ last'.gets = <<s.next_link>>
              /\ pg.links["items"].many
                   => lists'[s.rels] = lists[s.rels] \o
                        [i \in 1..Len(pg.links["items"].ds) |->
                           Val("link", TRUE, pg.links["items"].ds[i].href, 0)]
              /\ has_next_page(seqs'[last'.key]) <=> "next" \in DOMAIN pg.links
              /\ "next" \in DOMAIN pg.links
                   => seqs'[last'.key].next_link = pg.links["next"].ds[1].href ]_vars

\* C7 witness: a page with items was appended behind known items, and it was the last page
C7_Witness ==
  /\ last.op = "advancePage" /\ last.exc = "ok"
  /\ world.counts[1] >= 1 /\ Len(world.counts) = 2 /\ world.counts[2] >= 1
  /\ world.bad = 0
  /\ Len(lists[seqs[last.key].rels]) = world.counts[1] + world.counts[2]
  /\ ~has_next_page(seqs[last.key])

\* C8: resolving a name that is a key of neither embedded nor links fails with
\* KeyError (UnknownRelation), sends nothing and changes nothing.
C8_UnknownRelation ==
  [][ (/\ last'.op = "resolve"
       /\ last'.key \notin DOMAIN EmbOf(last'.tgt)
       /\ last'.key \notin DOMAIN LinksOf(last'.tgt))
        => /\ last'.exc = "KeyError"
           /\ last'.gets = <<>> /\ last'.post = "none"
           /\ embedded' = embedded /\ links' = links
           /\ lists' = lists /\ seqs' = seqs ]_vars

\* C8 witness: the root was asked for a relation it does not know
C8_Witness ==
  /\ last.op = "resolve" /\ last.tgt = RootVal /\ last.exc = "KeyError"
  /\ last.key \notin DOMAIN links /\ last.key \notin DOMAIN embedded
  /\ links # EmptyFn

\* C9: create() on a resource without createForm link fails with AttributeError
\* (MissingCapability), which is none of the transport's errors nor KeyError,
\* sends no POST and no GET, and leaves cache and lists as they were.
C9_MissingCapability ==
  [][ (last'.op = "create" /\ "createForm" \notin DOMAIN LinksOf(last'.tgt))
        => /\ last'.exc = "AttributeError"
           /\ ~Failed(last'.exc) /\ last'.exc # "KeyError"
           /\ last'.post = "none" /\ last'.gets = <<>>
           /\ ncreate' = ncreate
           /\ embedded' = embedded /\ lists' = lists /\ seqs' = seqs ]_vars

\* C9 witness: create failed on a collection without createForm whose items are resolved
C9_Witness ==
  /\ last.op = "create" /\ last.tgt = RootVal /\ last.exc = "AttributeError"
  /\ last.post = "none"
  /\ "createForm" \notin DOMAIN links
  /\ "items" \in DOMAIN seqs /\ Len(lists[seqs["items"].rels]) >= 1

HasBadLink(doc) ==
  \E r \in DOMAIN doc.links : \E i \in 1..Len(doc.links[r].ds) : ~doc.links[r].ds[i].hasHref

\* C10: a document with a link descriptor without href (a single link object or
\* an element of an array) is refused at construction with ValueError
\* (MalformedLink); so every link a resource or list holds has an href, and an
\* AttributeError is never the lack of one: it is a missing createForm, an
\* append on a single resource, or a list entry that is no link.
C10_FailFastLinks ==
  /\ (last.op = "get" /\ ~Failed(last.exc) /\ HasBadLink(ServerDoc(world, world.entry)))
       => last.exc = "ValueError" /\ ~root.made
  /\ \A r \in DOMAIN links : ~links[r].many => links[r].link.hasHref
  /\ \A l \in DOMAIN lists : \A i \in 1..Len(lists[l]) :
        lists[l][i].kind = "link" => lists[l][i].hasHref
  /\ last.exc = "AttributeError"
       => \/ last.op = "create" /\ ("createForm" \notin DOMAIN LinksOf(last.tgt) \/ last.post = "ok")
          \/ /\ last.op \in {"at", "next"}
             /\ lists[seqs[last.key].rels][last.idx + 1].kind = "str"

\* C10 witness: get() of a document whose link array holds an element without href
C10_Witness ==
  /\ last.op = "get" /\ last.exc = "ValueError"
  /\ world.entry = Bad2Href /\ ~root.made

\* C11: `key in rels` answers True iff key is a key of embedded or of links,
\* which is iff resolving key (however the transport answers) would not fail
\* with KeyError; the probe raises nothing, sends no request, and leaves
\* embedded, links, the lists and the RelLists as they were.
C11_ContainsIsPureProbe ==
  [][ last'.op = "contains"
        => LET lk == LinksOf(last'.tgt)
               emb == EmbOf(last'.tgt)
               yes == last'.ret.kind = "True"
           IN /\ last'.ret.kind \in {"True", "False"}
              /\ yes <=> (last'.key \in DOMAIN emb \/ last'.key \in DOMAIN lk)
              /\ \A st \in Statuses :
                   yes <=> RelResolver_getitem(world, lk, emb, SeqsOf(last'.tgt),
                                               last'.key, st).exc # "KeyError"
              /\ last'.exc = "ok" /\ last'.gets = <<>> /\ last'.post = "none"
              /\ embedded' = embedded /\ links' = links /\ lists' = lists
              /\ seqs' = seqs /\ pages' = pages /\ rgets' = rgets ]_vars

\* C11 witness: the probe answered True for a single link not yet resolved,
\* whose resolve would send a GET, and nothing was sent
C11_Witness ==
  /\ last.op = "contains" /\ last.tgt = RootVal /\ last.ret.kind = "True"
  /\ last.key \in DOMAIN links /\ ~links[last.key].many
  /\ last.key \notin DOMAIN embedded
  /\ rgets[last.key] = 0

\* C12: a cursor step at the last known index fetches exactly one page if a
\* next page is pending and otherwise ends the iteration; a step elsewhere
\* fetches no page; and for every well-formed chain, pages without items
\* included, a step whose requests are all answered yields a resource or ends
\* the iteration with StopIteration, never with IndexError.
C12_IterationStep ==
  [][ (last'.op = "next" /\ world.bad = 0 /\ ~Failed(last'.exc))
        => LET it == iters[last'.tgt.gen]
               s == seqs[it.link_list]
               atEnd == it.idx = RelList_len(lists, s)
           IN /\ (atEnd /\ has_next_page(s)) => Len(pages') = Len(pages) + 1
              /\ (atEnd /\ ~has_next_page(s))
                   => last'.exc = "StopIteration" /\ last'.gets = <<>>
              /\ ~atEnd => pages' = pages
              /\ last'.exc \in {"ok", "StopIteration"}
              /\ last'.exc = "ok" => last'.ret.kind = "res" ]_vars

\* C13: once a resource is constructed, no resolve, at, advancePage or create
\* changes its links: a single link stays the same link, and the list
\* links[R] of a list-valued relation keeps its length and its link elements.
C13_LinksImmutable ==
  [][ root.made => links' = links /\ lists' = lists ]_vars

\* C14: an at(i) or cursor step that succeeds yields a resource, which is then
\* what slot i holds; a slot that holds a resource keeps that resource for
\* good; and an at(i) or cursor visit of a slot that already holds a resource
\* returns that identical resource and sends no request.
C14_SlotResolvedOnce ==
  [][ /\ \A l \in DOMAIN lists : \A i \in 1..Len(lists[l]) :
           lists[l][i].kind = "res"
             => Len(lists'[l]) >= i /\ lists'[l][i] = lists[l][i]
      /\ (last'.op \in {"at", "next"} /\ last'.exc = "ok")
           => /\ last'.ret.kind = "res"
              /\ lists'[seqs'[last'.key].rels][last'.idx + 1] = last'.ret
      /\ (/\ last'.op \in {"at", "next"}
          /\ last'.idx < Len(lists[seqs[last'.key].rels])
          /\ lists[seqs[last'.key].rels][last'.idx + 1].kind = "res")
           => /\ last'.exc = "ok" /\ last'.gets = <<>>
              /\ last'.ret = lists[seqs[last'.key].rels][last'.idx + 1]
      /\ (/\ last'.op \in {"at", "next"} /\ last'.exc = "ok"
          /\ last'.idx < Len(lists[seqs[last'.key].rels])
          /\ lists[seqs[last'.key].rels][last'.idx + 1].kind = "link")
           => /\ last'.gets = <<lists[seqs[last'.key].rels][last'.idx + 1].href>>
              /\ last'.ret.href = lists[seqs[last'.key].rels][last'.idx + 1].href ]_vars

\* C14 witness: a cursor visited a slot of a later page that at() had resolved
\* before, and got the resource without a request
C14_Witness ==
  /\ last.op = "next" /\ last.exc = "ok" /\ last.gets = <<>>
  /\ last.ret.kind = "res" /\ last.ret.href[1] = "item" /\ last.ret.href[2] >= 2
  /\ lists[seqs[last.key].rels][last.idx + 1] = last.ret

\* C15: with several cursors on one RelList stepped in any order, every cursor
\* has yielded exactly the entries of the indices 0 .. idx-1 in order, wherever
\* the others stand; a cursor that ends on a well-formed chain has yielded every
\* item of every page; and no page and no item link was fetched twice.
C15_IndependentCursors ==
  /\ \A c \in 1..Len(iters) :
       LET l == lists[seqs[iters[c].link_list].rels] IN
         /\ iters[c].idx <= Len(l)
         /\ iters[c].out = [i \in 1..iters[c].idx |-> l[i].href]
  /\ (last.op = "next" /\ last.exc = "StopIteration" /\ world.bad = 0)
       => iters[last.tgt.gen].out = ChainItems(world, 1)
  /\ \A i \in 1..Len(pages) : \A j \in 1..Len(pages) : pages[i] = pages[j] => i = j
  /\ \A h \in DOMAIN nfetch : nfetch[h] <= 1

\* C15 witness: two cursors have both walked two pages; the second one's last
\* step found the item of page 2 already fetched by the first and sent nothing
C15_Witness ==
  /\ Len(iters) = 2 /\ iters[1].idx = 2 /\ iters[2].idx = 2
  /\ world.counts = <<1, 1>>
  /\ last.op = "next" /\ last.tgt.gen = 2 /\ last.exc = "ok" /\ last.gets = <<>>
  /\ last.ret.href = ItemHref(2, 1)
  /\ Len(pages) = 2 /\ nfetch[ItemHref(2, 1)] = 1

\* C16: once a RelList has no next page link, no cursor step, at, create or
\* further advancePage gives it one again; a cursor step on it requests no
\* page, and an advancePage on it sends nothing.
C16_ExhaustedIsTerminal ==
  [][ \A k \in DOMAIN seqs :
        ~has_next_page(seqs[k])
          => /\ k \in DOMAIN seqs' /\ ~has_next_page(seqs'[k])
             /\ (last'.op = "next" /\ last'.key = k)
                  => /\ pages' = pages
                     /\ \A i \in 1..Len(last'.gets) : last'.gets[i][1] = "item"
             /\ (last'.op = "advancePage" /\ last'.key = k)
                  => last'.gets = <<>> /\ last'.exc # "ok" /\ lists' = lists ]_vars

\* C16 witness: advancePage was called on a list that two fetched pages and a
\* create had brought to its end, and it sent nothing
C16_Witness ==
  /\ last.op = "advancePage" /\ last.exc = "MissingSchema" /\ last.gets = <<>>
  /\ ~has_next_page(seqs[last.key])
  /\ Len(pages) = 3 /\ ncreate = 1
  /\ iters # <<>>

\* C17: the first resolve of a list-valued relation R (the resource's next
\* relation, where present, being a single link) sends no request and returns
\* a RelList that has a next page iff R is "items" and the resource has a next
\* link, whose href is then the next page link; the RelList of a relation of
\* any other name never has a next page; and only list-valued relations have
\* a RelList, a single-valued one resolving to a resource.
C17_PaginationByName ==
  [][ /\ (/\ last'.op = "resolve" /\ last'.tgt = RootVal
          /\ last'.key \in DOMAIN links /\ last'.key \notin DOMAIN embedded)
           => IF links[last'.key].many
              THEN /\ last'.exc = "ok" /\ last'.gets = <<>>
                   /\ last'.ret.kind = "seq"
                   /\ last'.key \in DOMAIN seqs'
                   /\ has_next_page(seqs'[last'.key])
                        <=> (last'.key = "items" /\ "next" \in DOMAIN links)
                   /\ has_next_page(seqs'[last'.key])
                        => seqs'[last'.key].next_link = links["next"].link.href
              ELSE /\ last'.ret.kind # "seq"
                   /\ last'.exc = "ok" => last'.ret.kind = "res"
                   /\ last'.key \notin DOMAIN seqs'
      /\ \A k \in DOMAIN seqs' :
           /\ k \in DOMAIN links' /\ links'[k].many
           /\ k # "items" => ~has_next_page(seqs'[k]) ]_vars

\* C17 witness: a list-valued relation that is not "items" was resolved on a
\* resource that has a next link, and its RelList has no next page
C17_Witness ==
  /\ last.op = "resolve" /\ last.tgt = RootVal /\ last.exc = "ok"
  /\ last.key = "owner" /\ last.ret.kind = "seq" /\ last.gets = <<>>
  /\ "next" \in DOMAIN links
  /\ ~has_next_page(seqs["owner"])

\* C18: over at, advancePage, create (which appends) and cursor steps, a
\* RelList keeps its list, the list never gets shorter, and the entry at every
\* known index stays what it was, or is the resource its link was resolved to.
C18_GrowsOnlyAtEnd ==
  [][ /\ \A k \in DOMAIN seqs : k \in DOMAIN seqs' /\ seqs'[k].rels = seqs[k].rels
      /\ \A l \in DOMAIN lists :
           /\ l \in DOMAIN lists'
           /\ Len(lists'[l]) >= Len(lists[l])
           /\ \A i \in 1..Len(lists[l]) :
                \/ lists'[l][i] = lists[l][i]
                \/ /\ lists[l][i].kind = "link" /\ lists'[l][i].kind = "res"
                   /\ lists'[l][i].href = lists[l][i].href
                   /\ last'.op \in {"at", "next"} /\ last'.idx = i - 1 ]_vars

\* C18 witness: a page was appended behind a resolved item and a created
\* resource, both still in their places
C18_Witness ==
  /\ last.op \in {"advancePage", "next"} /\ last.exc = "ok"
  /\ "items" \in DOMAIN seqs
  /\ LET l == lists[seqs["items"].rels] IN
       /\ Len(l) >= 3
       /\ l[1].kind = "res" /\ l[1].href = ItemHref(1, 1)
       /\ l[2].href = NewHref(1)
       /\ l[3].href = ItemHref(2, 1)
       /\ Len(pages) >= 2

\* C19: a create() that reaches the server sends the POST and nothing else,
\* and once the POST is accepted it returns the new resource without error,
\* whatever the items relation of the collection is (absent, a list of links
\* resolved or not, a single link).
C19_CreateOnlyPosts ==
  (last.op = "create" /\ last.post # "none")
     => /\ last.gets = <<>>
        /\ last.post = "ok" => last.exc = "ok" /\ last.ret.kind = "res"

\* C20: a cursor step that raises (its page request or its item request
\* failed) leaves the cursor where it was; a step that succeeds returns the
\* entry at the cursor's index and moves the cursor by one, so the cursor
\* yields the indices 0, 1, 2, ... without gap or repetition; no step moves
\* another cursor; and a page fetched by a step whose item request then failed
\* stays in the list and is not requested again.
C20_FailedStepDoesNotAdvance ==
  [][ last'.op = "next"
        => LET c == last'.tgt.gen
               l == seqs[iters[c].link_list].rels
           IN /\ last'.idx = iters[c].idx
              /\ \A d \in 1..Len(iters) : d # c => iters'[d] = iters[d]
              /\ last'.exc # "ok" => iters'[c] = iters[c]
              /\ last'.exc = "ok"
                   => /\ iters'[c].idx = iters[c].idx + 1
                      /\ last'.ret = lists'[l][iters[c].idx + 1]
                      /\ iters'[c].out = Append(iters[c].out, last'.ret.href)
              /\ Len(pages') > Len(pages)
                   => /\ pages'[Len(pages')] \notin {pages[i] : i \in 1..Len(pages)}
                      /\ Len(lists'[l]) >= Len(lists[l])
                      /\ ~has_next_page(seqs'[iters[c].link_list])
                           \/ seqs'[iters[c].link_list].next_link # pages'[Len(pages')] ]_vars

\* C20 witness: the only cursor got the first item of page 2 in a step that
\* requested no page: the step before had fetched page 2 and failed on the item
C20_Witness ==
  /\ Len(iters) = 1
  /\ last.op = "next" /\ last.exc = "ok"
  /\ last.gets = <<ItemHref(2, 1)>> /\ last.ret.href = ItemHref(2, 1)
  /\ iters[1].idx = last.idx + 1
  /\ nfetch = (ItemHref(2, 1) :> 1)
  /\ world.counts[1] = 0

====
